---- MODULE Spec2Model ----
(***************************************************************************)
(* Country-specific discount rates (scripts/_helpers_discount_rates.py)    *)
(* and the district-heating share projection                               *)
(* (scripts/build_district_heat_share.py) of PyPSA-Eur.                    *)
(*                                                                         *)
(* Conventions.  A Python str is a sequence of one-character strings, so   *)
(* that slicing is computed.  A discount rate is an integer number of      *)
(* basis points (1/10000).  A share, a population fraction and a capital   *)
(* cost are exact rationals <<numerator, denominator>> in lowest terms.    *)
(* An optional Python value is <<>> (None / missing) or <<v>>.  A dict or  *)
(* pandas Series is a sequence of [key, value] records in insertion order; *)
(* a DataFrame is a record of its column names and its sequence of rows.   *)
(***************************************************************************)
EXTENDS Integers, Sequences, FiniteSets, TLC

VARIABLES
    costs_config,       \* the costs section of the configuration (a dict)
    costs,              \* the caller's technology cost table
    ret,                \* the last call and what it returned or raised
    network,            \* the caller's network: component kind -> DataFrame
    loaded,             \* the component tables as they were handed over
    pc,                 \* position of the running script or call
    total_adjustments,  \* local of apply_country_discount_rates_to_network
    pop_layout,         \* clustered population layout: sequence of node rows
    district_heat_share, \* historical share: per country, then per node
    urban_fraction,     \* fraction of each node that is urban
    potential,          \* sector.district_heating.potential
    progress,           \* get(sector.district_heating.progress, year)
    central_fraction,   \* potential ceiling after resolution, per node
    df                  \* the output table handed to to_csv

vars == <<costs_config, costs, ret, network, loaded, pc, total_adjustments,
          pop_layout, district_heat_share, urban_fraction, potential, progress,
          central_fraction, df>>

ratesVars == <<costs_config, costs, ret>>
networkVars == <<network, loaded, total_adjustments>>
heatVars == <<pop_layout, district_heat_share, urban_fraction, potential, progress,
              central_fraction, df>>

----------------------------------------------------------------------------
(* Bounds of the model.                                                    *)
MaxCountries == 2   \* longest list of countries handed to a batch call
MaxTechs == 2       \* most rows of the technology cost table
MaxRows == 2        \* most rows of a component or bus table
MaxNodes == 2       \* most nodes of the population layout

----------------------------------------------------------------------------
(* Python values.                                                          *)
None == <<>>
Some(v) == <<v>>

Min(a, b) == IF a <= b THEN a ELSE b
Abs(x) == IF x < 0 THEN -x ELSE x

\* s[:2] on a str
Prefix2(s) == SubSeq(s, 1, Min(2, Len(s)))

DE == <<"D", "E">>
FR == <<"F", "R">>
UA == <<"U", "A">>
Codes == {DE, FR, UA}

\* dict.get(key, default)
DictGet(d, key, default) == IF key \in DOMAIN d THEN d[key] ELSE default

\* d[k] = v on an insertion-ordered dict
DictSet(d, k, v) ==
    IF \E i \in DOMAIN d : d[i].key = k
    THEN [i \in DOMAIN d |-> IF d[i].key = k THEN [key |-> k, value |-> v] ELSE d[i]]
    ELSE Append(d, [key |-> k, value |-> v])

RateUnit == 10 ^ 4

\* rates a configuration may name, in basis points
RateSet == {0, 500, 705}
GlobalRateSet == {0, 700}

\* country_specific_discountrate: a mapping over some of the countries
RateTables == UNION {[D -> RateSet] : D \in SUBSET {DE, UA}}

Configs ==
    {[social_discountrate |-> Some(g)] : g \in GlobalRateSet}
    \cup {[social_discountrate |-> None]}
    \cup {<<>>}
    \cup {[country_specific_discountrate |-> t] : t \in RateTables}
    \cup {[country_specific_discountrate |-> t, social_discountrate |-> g] :
            t \in RateTables, g \in {None} \cup {Some(x) : x \in GlobalRateSet}}

----------------------------------------------------------------------------
(* The resolver.                                                           *)
DefaultRate == 700

\* Mutation: the global rate is consulted before the country table.
get_country_discount_rate_global_first(country_code, cfg) ==
    LET country_rates == DictGet(cfg, "country_specific_discountrate", <<>>)
        global_rate == DictGet(cfg, "social_discountrate", None)
    IN  IF global_rate # None THEN global_rate[1]
        ELSE IF country_code \in DOMAIN country_rates THEN country_rates[country_code]
        ELSE DefaultRate

get_country_discount_rate(country_code, cfg) ==
    LET country_rates == DictGet(cfg, "country_specific_discountrate", <<>>)
    IN  IF country_code \in DOMAIN country_rates
        THEN country_rates[country_code]
        ELSE LET global_rate == DictGet(cfg, "social_discountrate", None)
             IN  IF global_rate # None THEN global_rate[1] ELSE DefaultRate

----------------------------------------------------------------------------
(* Tables handed to the batch calls and to the adjuster.                   *)

\* The rows a bus table or a component table is drawn from.  The country a
\* row's identifier, its bus and its country column encode all differ.
RowPool ==
    << [index |-> <<"D", "E", "1">>, bus |-> <<"F", "R", "1">>, country |-> UA,
        capital_cost |-> <<100, 1>>, p_nom |-> 10],
       [index |-> <<"F", "R", "2">>, bus |-> <<"U", "A", "2">>, country |-> DE,
        capital_cost |-> <<200, 1>>, p_nom |-> 20],
       [index |-> <<"U", "A", "3">>, bus |-> <<"D", "E", "3">>, country |-> FR,
        capital_cost |-> <<300, 1>>, p_nom |-> 30] >>

RECURSIVE SortedSeq(_)
SortedSeq(S) ==
    IF S = {} THEN <<>>
    ELSE LET m == CHOOSE x \in S : \A y \in S : x <= y
         IN  <<m>> \o SortedSeq(S \ {m})

\* A DataFrame with the given columns, holding the chosen rows of the pool.
Frame(cols, picks) ==
    [columns |-> cols,
     rows |-> [i \in 1..Len(picks) |->
                 [f \in cols \cup {"index"} |-> RowPool[picks[i]][f]]]]

RowPicks ==
    {SortedSeq(S) : S \in {T \in SUBSET (1..Len(RowPool)) : Cardinality(T) <= MaxRows}}

BusFrames == {Frame(cols, picks) : cols \in {{}, {"country"}}, picks \in RowPicks}

CountryLists == UNION {[1..n -> Codes] : n \in 0..MaxCountries}

TechNames == <<"solar", "onwind", "gas", "nuclear", "coal">>

\* a technology cost table, its 'discount rate' column still uniform
CostFrame(n) ==
    [index_names |-> <<"technology">>,
     columns |-> {"discount rate", "investment"},
     rows |-> [i \in 1..n |->
                 [index |-> <<TechNames[i]>>, discount_rate |-> DefaultRate,
                  investment |-> 100 * i]]]

CostFrames == {CostFrame(n) : n \in 0..Min(MaxTechs, Len(TechNames))}

----------------------------------------------------------------------------
(* Batch resolvers.                                                        *)

RECURSIVE SeriesLoop(_, _, _)
\* for country in countries: discount_rates[country] = ...
SeriesLoop(countries, cfg, discount_rates) ==
    IF countries = <<>> THEN discount_rates
    ELSE SeriesLoop(Tail(countries), cfg,
                    DictSet(discount_rates, Head(countries),
                            get_country_discount_rate(Head(countries), cfg)))

get_country_discount_rates_series(countries, cfg) ==
    [raised |-> "", value |-> SeriesLoop(countries, cfg, <<>>)]

RECURSIVE NodalLoop(_, _, _)
\* for bus_id, country in countries.items(): discount_rates[bus_id] = ...
NodalLoop(items, cfg, discount_rates) ==
    IF items = <<>> THEN discount_rates
    ELSE NodalLoop(Tail(items), cfg,
                   DictSet(discount_rates, Head(items).key,
                           get_country_discount_rate(Head(items).value, cfg)))

get_nodal_discount_rates(network_buses, cfg) ==
    IF "country" \in network_buses.columns
    THEN \* a Series: items() yields (bus id, country)
         [raised |-> "",
          value |-> NodalLoop([i \in DOMAIN network_buses.rows |->
                                 [key |-> network_buses.rows[i].index,
                                  value |-> network_buses.rows[i].country]],
                              cfg, <<>>)]
    ELSE \* network_buses.index.str[:2] is a pandas Index, which has no
         \* items(): the loop header raises.
         [raised |-> "AttributeError", value |-> <<>>]

----------------------------------------------------------------------------
(* Country-specific cost expansion.                                        *)

\* country_df = costs.copy(); set 'discount rate' and 'country'
CountryFrame(frame, country, cfg) ==
    [frame EXCEPT
        !.columns = @ \cup {"country"},
        !.rows = [i \in DOMAIN frame.rows |->
                    [index |-> frame.rows[i].index,
                     discount_rate |-> get_country_discount_rate(country, cfg),
                     investment |-> frame.rows[i].investment,
                     country |-> country]]]

RECURSIVE Concat(_, _)
\* pd.concat(frames, keys=keys): rows in order, each keyed by its frame's key
Concat(frames, keys) ==
    IF frames = <<>> THEN <<>>
    ELSE [i \in DOMAIN Head(frames).rows |->
            [Head(frames).rows[i] EXCEPT !.index = <<Head(keys)>> \o @]]
         \o Concat(Tail(frames), Tail(keys))

\* Mutation: the single-country branch is taken for every list.
apply_country_specific_costs_first_only(frame, countries, cfg) ==
    IF countries = <<>>
    THEN [raised |-> "IndexError", in_place |-> FALSE, value |-> frame, costs |-> frame]
    ELSE LET out == [frame EXCEPT
                        !.rows = [i \in DOMAIN frame.rows |->
                                    [frame.rows[i] EXCEPT !.discount_rate =
                                        get_country_discount_rate(countries[1], cfg)]]]
         IN  [raised |-> "", in_place |-> TRUE, value |-> out, costs |-> out]

\* Returns what was raised, the table returned, whether that table is the
\* caller's own object, and the caller's table after the call.
apply_country_specific_costs(frame, countries, cfg) ==
    IF Len(countries) > 1
    THEN LET country_costs ==
                [k \in DOMAIN countries |-> CountryFrame(frame, countries[k], cfg)]
         IN  [raised |-> "", in_place |-> FALSE,
              value |-> [index_names |-> <<"country", "technology">>,
                         columns |-> frame.columns \cup {"country"},
                         rows |-> Concat(country_costs, countries)],
              costs |-> frame]
    ELSE IF countries = <<>>
    THEN \* countries[0]
         [raised |-> "IndexError", in_place |-> FALSE, value |-> frame, costs |-> frame]
    ELSE LET out == [frame EXCEPT
                        !.rows = [i \in DOMAIN frame.rows |->
                                    [frame.rows[i] EXCEPT !.discount_rate =
                                        get_country_discount_rate(countries[1], cfg)]]]
         IN  [raised |-> "", in_place |-> TRUE, value |-> out, costs |-> out]

----------------------------------------------------------------------------
(* Exact rational arithmetic on <<numerator, denominator>>.                *)

RECURSIVE GCD(_, _)
GCD(a, b) == IF b = 0 THEN a ELSE GCD(b, a % b)

\* lowest terms, positive denominator
Rat(n, d) ==
    LET g == GCD(Abs(n), Abs(d))
        sgn == IF d < 0 THEN -1 ELSE 1
    IN  <<sgn * (n \div g), sgn * (d \div g)>>

RAdd(x, y) == Rat(x[1] * y[2] + y[1] * x[2], x[2] * y[2])
RSub(x, y) == Rat(x[1] * y[2] - y[1] * x[2], x[2] * y[2])
RMul(x, y) == Rat(x[1] * y[1], x[2] * y[2])
RDiv(x, y) == Rat(x[1] * y[2], x[2] * y[1])
RLeq(x, y) == x[1] * y[2] <= y[1] * x[2]
RLess(x, y) == x[1] * y[2] < y[1] * x[2]
RMax(x, y) == IF RLeq(x, y) THEN y ELSE x
RZero == <<0, 1>>
ROne == <<1, 1>>

----------------------------------------------------------------------------
(* The annuity-based capital-cost adjuster.                                *)

Tolerance == 10
default_lifetime == 25
AnnuityUnit == 10 ^ 5

RECURSIVE PowFixed(_, _)
\* (1 + discount_rate) ** n in units of 1/RateUnit, truncated at each step
PowFixed(discount_rate, n) ==
    IF n = 0 THEN RateUnit
    ELSE (PowFixed(discount_rate, n - 1) * (RateUnit + discount_rate)) \div RateUnit

\* r / (1 - (1 + r) ** -lifetime) = r * q / (q - 1) with q = (1 + r) ** lifetime;
\* the result is in units of 1/AnnuityUnit.
calculate_annuity_simple(lifetime, discount_rate) ==
    IF discount_rate = 0
    THEN AnnuityUnit \div lifetime
    ELSE LET q == PowFixed(discount_rate, lifetime)
         IN  (discount_rate * q * (AnnuityUnit \div RateUnit)) \div (q - RateUnit)

\* DataFrame.empty: some axis has length zero
Empty(component) == component.rows = <<>> \/ component.columns = {}

\* Mutation: an explicit country column is preferred to the bus.
ComponentCountries_country_first(component) ==
    IF "country" \in component.columns
    THEN [i \in DOMAIN component.rows |-> component.rows[i].country]
    ELSE IF "bus" \in component.columns
    THEN [i \in DOMAIN component.rows |-> Prefix2(component.rows[i].bus)]
    ELSE [i \in DOMAIN component.rows |-> Prefix2(component.rows[i].index)]

\* the country of every row, by position
ComponentCountries(component) ==
    IF "bus" \in component.columns
    THEN [i \in DOMAIN component.rows |-> Prefix2(component.rows[i].bus)]
    ELSE IF "country" \in component.columns
    THEN [i \in DOMAIN component.rows |-> component.rows[i].country]
    ELSE [i \in DOMAIN component.rows |-> Prefix2(component.rows[i].index)]

\* Mutation: the tolerance test is lost.
NeedsAdjustment_any_override(country, country_rates, global_rate) ==
    country \in DOMAIN country_rates

NeedsAdjustment(country, country_rates, global_rate) ==
    /\ country \in DOMAIN country_rates
    /\ Abs(country_rates[country] - global_rate) > Tolerance

adjustment_factor(country_rate, global_rate) ==
    LET old_annuity == calculate_annuity_simple(default_lifetime, global_rate)
        new_annuity == calculate_annuity_simple(default_lifetime, country_rate)
    IN  Rat(new_annuity, old_annuity)

RECURSIVE AdjustLoop(_, _, _, _, _, _)
\* for i, idx in enumerate(component.index): ...
\* yields the table and the list changed_components after the loop
AdjustLoop(i, component, countries, country_rates, global_rate, changed_components) ==
    IF i > Len(component.rows)
    THEN [component |-> component, changed_components |-> changed_components]
    ELSE LET country == countries[i]
         IN  IF NeedsAdjustment(country, country_rates, global_rate)
             THEN LET factor == adjustment_factor(country_rates[country], global_rate)
                  IN  AdjustLoop(i + 1,
                         [component EXCEPT !.rows[i].capital_cost = RMul(@, factor)],
                         countries, country_rates, global_rate,
                         Append(changed_components,
                                <<component.rows[i].index, country,
                                  country_rates[country], factor>>))
             ELSE AdjustLoop(i + 1, component, countries, country_rates,
                             global_rate, changed_components)

\* Returns the count and the caller's table after the call.
apply_to_component_improved(component, component_name, country_rates, global_rate) ==
    IF Empty(component)
    THEN [raised |-> "", value |-> 0, component |-> component]
    ELSE LET countries == ComponentCountries(component)
         IN  IF "capital_cost" \notin component.columns
             THEN [raised |-> "", value |-> 0, component |-> component]
             ELSE LET done == AdjustLoop(1, component, countries, country_rates,
                                         global_rate, <<>>)
                  IN  [raised |-> "", value |-> Len(done.changed_components),
                       component |-> done.component]

Kinds == <<"generators", "storage_units", "stores", "links">>

\* Mutation: the running total is overwritten instead of added to.
AddAdjustments_overwrite(total, adjustments) == adjustments

\* total_adjustments += adjustments
AddAdjustments(total, adjustments) == total + adjustments

RECURSIVE ProcessComponents(_, _, _, _, _)
\* for component_name, component in components_to_process: ...
ProcessComponents(names, net, country_rates, global_rate, total) ==
    IF names = <<>>
    THEN [network |-> net, total_adjustments |-> total]
    ELSE LET name == Head(names)
             out == apply_to_component_improved(net[name], name, country_rates, global_rate)
         IN  ProcessComponents(Tail(names), [net EXCEPT ![name] = out.component],
                               country_rates, global_rate,
                               AddAdjustments(total, out.value))

\* Returns None; yields also the caller's network after the call and the
\* local total_adjustments (None while unassigned), which is only logged.
apply_country_discount_rates_to_network(net, cfg) ==
    LET country_rates == DictGet(cfg, "country_specific_discountrate", <<>>)
        global_rate == cfg.social_discountrate[1]
    IN  IF country_rates = <<>>
        THEN [raised |-> "", value |-> None, network |-> net, total_adjustments |-> None]
        ELSE LET components_to_process ==
                    SelectSeq(Kinds, LAMBDA k : k \in DOMAIN net /\ ~Empty(net[k]))
                 done == ProcessComponents(components_to_process, net,
                                           country_rates, global_rate, 0)
             IN  [raised |-> "", value |-> None, network |-> done.network,
                  total_adjustments |-> Some(done.total_adjustments)]

----------------------------------------------------------------------------
(* The district-heating share projection.                                  *)

DefaultKey == <<"d", "e", "f", "a", "u", "l", "t">>

RECURSIVE RSum(_)
RSum(xs) == IF xs = <<>> THEN RZero ELSE RAdd(Head(xs), RSum(Tail(xs)))

\* district_heat_share.reindex(pop_layout.ct).fillna(0), indexed by node
NodalShare(share, pop) ==
    [i \in DOMAIN pop |-> IF pop[i].ct \in DOMAIN share THEN share[pop[i].ct] ELSE RZero]

\* pop_layout.urban.groupby(pop_layout.ct).sum(), looked up for one country
ct_urban(pop, ct) ==
    RSum([i \in DOMAIN pop |-> IF pop[i].ct = ct THEN <<pop[i].urban, 1>> ELSE RZero])

\* pop_layout["urban_ct_fraction"] = urban / ct.map(ct_urban.get)
WithUrbanCtFraction(pop) ==
    [i \in DOMAIN pop |->
        [index |-> pop[i].index, ct |-> pop[i].ct, urban |-> pop[i].urban,
         rural |-> pop[i].rural, fraction |-> pop[i].fraction,
         urban_ct_fraction |-> RDiv(<<pop[i].urban, 1>>, ct_urban(pop, pop[i].ct))]]

\* urban / (rural + urban)
UrbanFraction(pop) ==
    [i \in DOMAIN pop |-> Rat(pop[i].urban, pop[i].rural + pop[i].urban)]

\* Mutation: the default is demanded although every country is covered.
resolve_potential_default_required(pot, pop) ==
    IF pot.kind = "dict"
    THEN IF DefaultKey \notin DOMAIN pot.dict
         THEN [raised |-> "ValueError", value |-> pot]
         ELSE [raised |-> "",
               value |-> [kind |-> "series",
                          series |-> [i \in DOMAIN pop |->
                                        IF pop[i].ct \in DOMAIN pot.dict
                                        THEN pot.dict[pop[i].ct]
                                        ELSE pot.dict[DefaultKey]]]]
    ELSE [raised |-> "", value |-> pot]

\* lines 68-91: the potential as a scalar or as a series over the nodes
resolve_potential(pot, pop) ==
    IF pot.kind = "dict"
    THEN LET other_countries == {pop[i].ct : i \in DOMAIN pop} \ DOMAIN pot.dict
             default_value == DictGet(pot.dict, DefaultKey, None)
         IN  IF other_countries # {} /\ default_value = None
             THEN [raised |-> "ValueError", value |-> pot]
             ELSE LET filled == [k \in DOMAIN pot.dict \cup other_countries |->
                                   IF k \in other_countries THEN default_value
                                   ELSE pot.dict[k]]
                  IN  [raised |-> "",
                       value |-> [kind |-> "series",
                                  series |-> [i \in DOMAIN pop |-> filled[pop[i].ct]]]]
    ELSE [raised |-> "", value |-> pot]

\* the ceiling that applies to node i
Ceiling(cf, i) == IF cf.kind = "series" THEN cf.series[i] ELSE cf.scalar

\* district_heat_share * urban_ct_fraction / fraction
DistFractionNode(share, pop) ==
    [i \in DOMAIN pop |-> RDiv(RMul(share[i], pop[i].urban_ct_fraction), pop[i].fraction)]

\* Mutation: the urban fraction is not raised.
RaiseUrbanFraction_kept(uf, dist) == uf

\* pd.concat([urban_fraction, dist_fraction_node], axis=1).max(axis=1)
RaiseUrbanFraction(uf, dist) == [i \in DOMAIN uf |-> RMax(uf[i], dist[i])]

\* Mutation: the headroom is not clipped.
ClipLower0_none(x) == x

\* .clip(lower=0)
ClipLower0(x) == RMax(x, RZero)

\* Mutation: the ceiling is left out of the headroom.
Headroom_no_ceiling(uf, cf, dist) ==
    [i \in DOMAIN uf |-> ClipLower0(RSub(uf[i], dist[i]))]

\* diff = ((urban_fraction * central_fraction) - dist_fraction_node).clip(lower=0)
Headroom(uf, cf, dist) ==
    [i \in DOMAIN uf |-> ClipLower0(RSub(RMul(uf[i], Ceiling(cf, i)), dist[i]))]

\* lines 93-120: the output table and the raised urban fraction
project(share, pop, uf, cf, prog) ==
    LET dist == DistFractionNode(share, pop)
        raised_uf == RaiseUrbanFraction(uf, dist)
        diff == Headroom(raised_uf, cf, dist)
    IN  [i \in DOMAIN pop |->
            [index |-> pop[i].index,
             original_district_heat_share |-> share[i],
             district_fraction_of_node |-> RAdd(dist[i], RMul(diff[i], prog)),
             urban_fraction |-> raised_uf[i]]]

----------------------------------------------------------------------------
(* One call of a resolver function.                                        *)
Idle == <<>>

NoCall == [fn |-> "", args |-> <<>>, result |-> <<>>]

InitRates ==
    /\ costs_config \in Configs
    /\ costs \in CostFrames
    /\ ret = NoCall
    /\ pc = "call"
    /\ network = Idle /\ loaded = Idle /\ total_adjustments = Idle
    /\ pop_layout = Idle /\ district_heat_share = Idle /\ urban_fraction = Idle
    /\ potential = Idle
    /\ progress = Idle /\ central_fraction = Idle /\ df = Idle

CallGetCountryDiscountRate ==
    /\ pc = "call"
    /\ \E country_code \in Codes :
          ret' = [fn |-> "get_country_discount_rate",
                  args |-> <<country_code>>,
                  result |-> [raised |-> "",
                           value |-> get_country_discount_rate(country_code, costs_config)]]
    /\ pc' = "done"
    /\ UNCHANGED <<costs_config, costs, networkVars, heatVars>>

CallGetCountryDiscountRatesSeries ==
    /\ pc = "call"
    /\ \E countries \in CountryLists :
          ret' = [fn |-> "get_country_discount_rates_series",
                  args |-> <<countries>>,
                  result |-> get_country_discount_rates_series(countries, costs_config)]
    /\ pc' = "done"
    /\ UNCHANGED <<costs_config, costs, networkVars, heatVars>>

CallGetNodalDiscountRates ==
    /\ pc = "call"
    /\ \E network_buses \in BusFrames :
          ret' = [fn |-> "get_nodal_discount_rates",
                  args |-> <<network_buses>>,
                  result |-> get_nodal_discount_rates(network_buses, costs_config)]
    /\ pc' = "done"
    /\ UNCHANGED <<costs_config, costs, networkVars, heatVars>>

CallApplyCountrySpecificCosts ==
    /\ pc = "call"
    /\ \E countries \in CountryLists :
          LET out == apply_country_specific_costs(costs, countries, costs_config)
          IN  /\ ret' = [fn |-> "apply_country_specific_costs",
                         args |-> <<costs, countries>>,
                         result |-> out]
              /\ costs' = out.costs
    /\ pc' = "done"
    /\ UNCHANGED <<costs_config, networkVars, heatVars>>

NextRates ==
    \/ CallGetCountryDiscountRate
    \/ CallGetCountryDiscountRatesSeries
    \/ CallGetNodalDiscountRates
    \/ CallApplyCountrySpecificCosts

SpecRates == InitRates /\ [][NextRates]_vars

----------------------------------------------------------------------------
(* Properties of the resolver functions.                                   *)

\* The three tiers as the specification states them.
HasCountryRate(c, cfg) ==
    /\ "country_specific_discountrate" \in DOMAIN cfg
    /\ c \in DOMAIN cfg.country_specific_discountrate

GlobalDefined(cfg) ==
    /\ "social_discountrate" \in DOMAIN cfg
    /\ cfg.social_discountrate # None

IsResolved(rate, c, cfg) ==
    /\ HasCountryRate(c, cfg) => rate = cfg.country_specific_discountrate[c]
    /\ ~HasCountryRate(c, cfg) /\ GlobalDefined(cfg) => rate = cfg.social_discountrate[1]
    /\ ~HasCountryRate(c, cfg) /\ ~GlobalDefined(cfg) => rate = 700

\* C1: get_country_discount_rate never raises and returns the country's
\* entry of country_specific_discountrate when there is one, otherwise
\* social_discountrate when that is defined, otherwise 0.07; the result is
\* always a defined rate.
C1_ThreeTierTotal ==
    ret.fn = "get_country_discount_rate" =>
        /\ ret.result.raised = ""
        /\ ret.result.value \in Nat
        /\ IsResolved(ret.result.value, ret.args[1], costs_config)

\* A call that fell through to the hard-coded default.
C1_Witness ==
    /\ ret.fn = "get_country_discount_rate"
    /\ ~HasCountryRate(ret.args[1], costs_config)
    /\ ~GlobalDefined(costs_config)
    /\ "country_specific_discountrate" \in DOMAIN costs_config
    /\ costs_config.country_specific_discountrate # <<>>
    /\ ret.result.value = 700

RECURSIVE FirstOccurrences(_, _)
\* the distinct elements of a list, in order of first occurrence
FirstOccurrences(list, seen) ==
    IF list = <<>> THEN <<>>
    ELSE IF Head(list) \in seen THEN FirstOccurrences(Tail(list), seen)
    ELSE <<Head(list)>> \o FirstOccurrences(Tail(list), seen \cup {Head(list)})

\* C7: the batch resolvers return one resolved rate per input key, in the
\* caller's order: get_country_discount_rates_series per country code of
\* the list, get_nodal_discount_rates per bus, the bus's country being its
\* 'country' column when there is one and the first two characters of its
\* identifier otherwise.
C7_BatchResolvers ==
    /\ ret.fn = "get_country_discount_rates_series" =>
          LET keys == FirstOccurrences(ret.args[1], {})
          IN  /\ ret.result.raised = ""
              /\ Len(ret.result.value) = Len(keys)
              /\ \A i \in DOMAIN keys :
                    /\ ret.result.value[i].key = keys[i]
                    /\ IsResolved(ret.result.value[i].value, keys[i], costs_config)
    /\ ret.fn = "get_nodal_discount_rates" =>
          LET buses == ret.args[1]
          IN  /\ ret.result.raised = ""
              /\ Len(ret.result.value) = Len(buses.rows)
              /\ \A i \in DOMAIN buses.rows :
                    /\ ret.result.value[i].key = buses.rows[i].index
                    /\ IsResolved(ret.result.value[i].value,
                                  IF "country" \in buses.columns
                                  THEN buses.rows[i].country
                                  ELSE Prefix2(buses.rows[i].index),
                                  costs_config)

----------------------------------------------------------------------------
(* One call of the adjuster on a network.                                  *)

ComponentColumns ==
    {{}} \cup {S \cup {"p_nom"} : S \in SUBSET {"bus", "country", "capital_cost"}}

ComponentFrames == {Frame(cols, picks) : cols \in ComponentColumns, picks \in RowPicks}

\* what the kinds other than the one under study hold
PlainFrames ==
    {Frame({"bus", "capital_cost", "p_nom"}, <<>>),
     Frame({"bus", "capital_cost", "p_nom"}, <<2>>)}

KindSet == {Kinds[i] : i \in DOMAIN Kinds}

\* a network object without the attribute
Absent == [absent |-> TRUE]

\* what the other kinds hold: all the same, or one of each
OtherKinds ==
    {[k \in KindSet |-> x] : x \in PlainFrames \cup {Absent}}
    \cup {[generators |-> Frame({"bus", "capital_cost", "p_nom"}, <<2>>),
           storage_units |-> Frame({"bus", "capital_cost", "p_nom"}, <<>>),
           stores |-> Frame({"bus", "capital_cost", "p_nom"}, <<2>>),
           links |-> Absent]}

\* one kind holds any table, the others a plain one, an empty one or none
Networks ==
    {[k \in {j \in KindSet : j = focus \/ others[j] # Absent} |->
         IF k = focus THEN f ELSE others[k]] :
        focus \in KindSet,
        f \in ComponentFrames,
        others \in OtherKinds}

NetworkConfigs ==
    {[social_discountrate |-> Some(g)] : g \in GlobalRateSet}
    \cup {[country_specific_discountrate |-> t, social_discountrate |-> Some(g)] :
            t \in RateTables, g \in GlobalRateSet}

InitNetwork ==
    /\ costs_config \in NetworkConfigs
    /\ network \in Networks
    /\ loaded = network
    /\ total_adjustments = None
    /\ ret = NoCall
    /\ pc = "call"
    /\ costs = Idle
    /\ pop_layout = Idle /\ district_heat_share = Idle /\ urban_fraction = Idle
    /\ potential = Idle
    /\ progress = Idle /\ central_fraction = Idle /\ df = Idle

CallApplyToNetwork ==
    /\ pc = "call"
    /\ LET out == apply_country_discount_rates_to_network(network, costs_config)
       IN  /\ ret' = [fn |-> "apply_country_discount_rates_to_network",
                      args |-> <<>>,
                      result |-> [raised |-> out.raised, value |-> out.value]]
           /\ network' = out.network
           /\ total_adjustments' = out.total_adjustments
    /\ pc' = "done"
    /\ UNCHANGED <<costs_config, costs, loaded, heatVars>>

CallApplyToComponent ==
    /\ pc = "call"
    /\ \E name \in DOMAIN network :
          LET out == apply_to_component_improved(
                        network[name], name,
                        DictGet(costs_config, "country_specific_discountrate", <<>>),
                        costs_config.social_discountrate[1])
          IN  /\ ret' = [fn |-> "_apply_to_component_improved",
                         args |-> <<name>>,
                         result |-> [raised |-> out.raised, value |-> out.value]]
              /\ network' = [network EXCEPT ![name] = out.component]
    /\ pc' = "done"
    /\ UNCHANGED <<costs_config, costs, loaded, total_adjustments, heatVars>>

NextNetwork ==
    \/ CallApplyToNetwork
    \/ CallApplyToComponent

SpecNetwork == InitNetwork /\ [][NextNetwork]_vars

----------------------------------------------------------------------------
(* Properties of the adjuster.                                             *)

\* The country of a row as the specification derives it.
PriorityCountry(frame, i) ==
    IF "bus" \in frame.columns THEN Prefix2(frame.rows[i].bus)
    ELSE IF "country" \in frame.columns THEN frame.rows[i].country
    ELSE Prefix2(frame.rows[i].index)

\* The row's country has an override further than 0.001 from the global rate.
Overridden(frame, i) ==
    LET c == PriorityCountry(frame, i)
    IN  /\ HasCountryRate(c, costs_config)
        /\ Abs(costs_config.country_specific_discountrate[c]
               - costs_config.social_discountrate[1]) > 10

\* the kinds the finished call was handed
Handled ==
    IF ret.fn = "_apply_to_component_improved" THEN {ret.args[1]}
    ELSE IF ret.fn = "apply_country_discount_rates_to_network" THEN DOMAIN network
    ELSE {}

HasCosts(frame) == "capital_cost" \in frame.columns

\* the rows of a kind whose capital_cost the call changed
ChangedRows(k) ==
    {i \in DOMAIN network[k].rows :
        HasCosts(loaded[k]) /\ network[k].rows[i].capital_cost # loaded[k].rows[i].capital_cost}

RECURSIVE SumChanged(_)
SumChanged(names) ==
    IF names = <<>> THEN 0
    ELSE (IF Head(names) \in DOMAIN network THEN Cardinality(ChangedRows(Head(names))) ELSE 0)
         + SumChanged(Tail(names))

\* C2: a row's capital_cost is multiplied, once, by
\* annuity(25, r_country) / annuity(25, r_global) exactly when its derived
\* country has an override with |r_country - r_global| > 0.001; every other
\* row keeps its capital_cost, and no other column, row or table changes.
C2_RescaledIffOverridden ==
    pc = "done" =>
        /\ DOMAIN network = DOMAIN loaded
        /\ \A k \in DOMAIN network :
              /\ network[k].columns = loaded[k].columns
              /\ Len(network[k].rows) = Len(loaded[k].rows)
              /\ k \notin Handled => network[k] = loaded[k]
              /\ ~HasCosts(loaded[k]) => network[k] = loaded[k]
              /\ HasCosts(loaded[k]) =>
                    \A i \in DOMAIN loaded[k].rows :
                       LET before == loaded[k].rows[i]
                           after == network[k].rows[i]
                       IN  /\ [after EXCEPT !.capital_cost = before.capital_cost] = before
                           /\ k \in Handled /\ Overridden(loaded[k], i) =>
                                 /\ after.capital_cost =
                                       RMul(before.capital_cost,
                                            Rat(calculate_annuity_simple(25,
                                                   costs_config.country_specific_discountrate[
                                                      PriorityCountry(loaded[k], i)]),
                                                calculate_annuity_simple(25,
                                                   costs_config.social_discountrate[1])))
                                 /\ after.capital_cost # before.capital_cost
                           /\ ~Overridden(loaded[k], i) =>
                                 after.capital_cost = before.capital_cost

\* One table in which one row was rescaled and another, whose country's
\* override is within the tolerance, was left alone.
C2_Witness ==
    /\ pc = "done"
    /\ \E k \in Handled :
          /\ HasCosts(loaded[k])
          /\ \E i, j \in DOMAIN loaded[k].rows :
                /\ Overridden(loaded[k], i)
                /\ network[k].rows[i].capital_cost # loaded[k].rows[i].capital_cost
                /\ HasCountryRate(PriorityCountry(loaded[k], j), costs_config)
                /\ ~Overridden(loaded[k], j)
                /\ costs_config.country_specific_discountrate[PriorityCountry(loaded[k], j)]
                      # costs_config.social_discountrate[1]
                /\ network[k].rows[j] = loaded[k].rows[j]

\* C3 as stated: the adjuster returns the number of rows adjusted, summed
\* over the four component kinds (0 with an empty country_specific_discountrate).
C3_ReturnsCount ==
    pc = "done" /\ ret.fn = "apply_country_discount_rates_to_network" =>
        ret.result.value = Some(SumChanged(Kinds))

\* C3 as amended: the per-kind helper returns the number of rows it
\* adjusted; the adjuster adds these up over the kinds into
\* total_adjustments, which it only logs, and returns None; with an empty
\* country_specific_discountrate it returns before any table is looked at,
\* no row is adjusted and the helper returns 0 for every kind.
C3_CountsAdjustments ==
    pc = "done" =>
        LET noRates == DictGet(costs_config, "country_specific_discountrate", <<>>) = <<>>
        IN  /\ ret.fn = "apply_country_discount_rates_to_network" =>
                /\ ret.result.raised = ""
                /\ ret.result.value = None
                /\ ~noRates => total_adjustments = Some(SumChanged(Kinds))
                /\ noRates => total_adjustments = None /\ network = loaded
            /\ ret.fn = "_apply_to_component_improved" =>
                /\ ret.result.raised = ""
                /\ ret.result.value = Cardinality(ChangedRows(ret.args[1]))
                /\ noRates => ret.result.value = 0 /\ network = loaded

\* Rows of three kinds were adjusted in one call.
C3_Witness ==
    /\ pc = "done"
    /\ ret.fn = "apply_country_discount_rates_to_network"
    /\ Cardinality({k \in DOMAIN network : ChangedRows(k) # {}}) >= 3
    /\ \E k \in DOMAIN network : Cardinality(ChangedRows(k)) = 2
    /\ total_adjustments = Some(SumChanged(Kinds))

\* C9: the helper takes a row's country from the first two characters of
\* 'bus' when there is a 'bus' column, else from 'country' when there is a
\* 'country' column, else from the first two characters of the row's
\* identifier; the rows it adjusts, and the count it returns, are those this
\* country decides.  An empty table or one without 'capital_cost' yields 0,
\* unchanged and without error, whatever location columns it has.
C9_CountryPriority ==
    pc = "done" /\ ret.fn = "_apply_to_component_improved" =>
        LET k == ret.args[1]
            wanted == IF HasCosts(loaded[k]) /\ loaded[k].rows # <<>>
                      THEN {i \in DOMAIN loaded[k].rows : Overridden(loaded[k], i)}
                      ELSE {}
        IN  /\ ret.result.raised = ""
            /\ ChangedRows(k) = wanted
            /\ ret.result.value = Cardinality(wanted)
            /\ ~HasCosts(loaded[k]) \/ loaded[k].rows = <<>> =>
                  ret.result.value = 0 /\ network[k] = loaded[k]

\* A table with both location columns: the row's 'country' has an override
\* to apply, its bus does not, and the row was left alone.
C9_Witness ==
    /\ pc = "done"
    /\ ret.fn = "_apply_to_component_improved"
    /\ LET f == loaded[ret.args[1]]
       IN  /\ {"bus", "country", "capital_cost"} \subseteq f.columns
           /\ \E i \in DOMAIN f.rows :
                 /\ ~HasCountryRate(Prefix2(f.rows[i].bus), costs_config)
                 /\ HasCountryRate(f.rows[i].country, costs_config)
                 /\ Abs(costs_config.country_specific_discountrate[f.rows[i].country]
                        - costs_config.social_discountrate[1]) > 10
                 /\ network[ret.args[1]].rows[i] = f.rows[i]
           /\ \E j \in DOMAIN f.rows :
                 network[ret.args[1]].rows[j].capital_cost # f.rows[j].capital_cost

----------------------------------------------------------------------------
(* One run of build_district_heat_share.                                   *)

UrbanSet == {1, 3}
RuralSet == {1}
FractionSet == {<<1, 2>>, <<1, 1>>}
ShareSet == {<<2, 5>>}
ProgressSet == {<<0, 1>>, <<1, 2>>, <<1, 1>>, <<3, 2>>}

NodeNames == <<"n1", "n2", "n3", "n4", "n5">>

PopLayouts ==
    UNION {{[i \in 1..n |->
               [index |-> NodeNames[i], ct |-> r[i].ct, urban |-> r[i].urban,
                rural |-> r[i].rural, fraction |-> r[i].fraction]] :
              r \in [1..n -> [ct : {DE, FR}, urban : UrbanSet, rural : RuralSet,
                              fraction : FractionSet]]} :
           n \in 1..Min(MaxNodes, Len(NodeNames))}

HistoricalShares == UNION {[D -> ShareSet] : D \in SUBSET {DE, FR}}

PotentialDicts ==
    {[k \in D |-> IF k = DE THEN <<1, 2>> ELSE IF k = FR THEN <<3, 2>> ELSE <<1, 1>>] :
        D \in SUBSET {DE, FR, DefaultKey}}

Potentials ==
    {[kind |-> "scalar", scalar |-> v] : v \in {<<1, 2>>, <<3, 2>>}}
    \cup {[kind |-> "dict", dict |-> d] : d \in PotentialDicts}

InitHeat ==
    /\ pop_layout \in PopLayouts
    /\ district_heat_share \in HistoricalShares
    /\ potential \in Potentials
    /\ progress \in ProgressSet
    /\ urban_fraction = None
    /\ central_fraction = None
    /\ df = None
    /\ pc = "start"
    /\ ret = NoCall
    /\ costs_config = Idle /\ costs = Idle
    /\ network = Idle /\ loaded = Idle /\ total_adjustments = Idle

\* lines 54-91, no error raised
ResolvePotential ==
    /\ pc = "start"
    /\ LET out == resolve_potential(potential, pop_layout)
       IN  /\ out.raised = ""
           /\ central_fraction' = out.value
    /\ district_heat_share' = NodalShare(district_heat_share, pop_layout)
    /\ pop_layout' = WithUrbanCtFraction(pop_layout)
    /\ urban_fraction' = UrbanFraction(pop_layout)
    /\ pc' = "resolved"
    /\ UNCHANGED <<potential, progress, df, ret, costs_config, costs, networkVars>>

\* lines 54-80, the ValueError leaves the script
RaiseNoDefault ==
    /\ pc = "start"
    /\ resolve_potential(potential, pop_layout).raised # ""
    /\ district_heat_share' = NodalShare(district_heat_share, pop_layout)
    /\ pop_layout' = WithUrbanCtFraction(pop_layout)
    /\ urban_fraction' = UrbanFraction(pop_layout)
    /\ ret' = [fn |-> "__main__", args |-> <<>>,
               result |-> [raised |-> resolve_potential(potential, pop_layout).raised]]
    /\ pc' = "failed"
    /\ UNCHANGED <<potential, progress, central_fraction, df, costs_config, costs,
                   networkVars>>

\* lines 93-122
Project ==
    /\ pc = "resolved"
    /\ LET out == project(district_heat_share, pop_layout, urban_fraction,
                          central_fraction, progress)
       IN  /\ df' = out
           /\ urban_fraction' = [i \in DOMAIN out |-> out[i].urban_fraction]
    /\ pc' = "done"
    /\ UNCHANGED <<pop_layout, district_heat_share, potential, progress,
                   central_fraction, ret, costs_config, costs, networkVars>>

NextHeat ==
    \/ ResolvePotential
    \/ RaiseNoDefault
    \/ Project

SpecHeat == InitHeat /\ [][NextHeat]_vars

----------------------------------------------------------------------------
(* Properties of the district-heating projection.                          *)

\* The quantities of the specification, from the layout as loaded.
RawUrbanFraction(i) ==
    Rat(pop_layout[i].urban, pop_layout[i].urban + pop_layout[i].rural)

CountryUrban(ct) ==
    RSum([j \in DOMAIN pop_layout |->
            IF pop_layout[j].ct = ct THEN <<pop_layout[j].urban, 1>> ELSE RZero])

\* historical share * urban_ct_fraction / fraction
InitialShare(i) ==
    RDiv(RMul(df[i].original_district_heat_share,
              RDiv(<<pop_layout[i].urban, 1>>, CountryUrban(pop_layout[i].ct))),
         pop_layout[i].fraction)

Uncovered ==
    /\ potential.kind = "dict"
    /\ \E i \in DOMAIN pop_layout : pop_layout[i].ct \notin DOMAIN potential.dict

NoDefault == potential.kind = "dict" /\ DefaultKey \notin DOMAIN potential.dict

\* the ceiling the configuration gives node i
CeilingOf(i) ==
    IF potential.kind = "scalar" THEN potential.scalar
    ELSE IF pop_layout[i].ct \in DOMAIN potential.dict
    THEN potential.dict[pop_layout[i].ct]
    ELSE potential.dict[DefaultKey]

InUnit(x) == RLeq(RZero, x) /\ RLeq(x, ROne)

\* C5: a potential mapping that omits a country of the layout and has no
\* 'default' makes the run fail with an error, and no output table is
\* produced; a scalar, a covering mapping or a mapping with a 'default'
\* raises no such error, and every uncovered country gets the 'default'.
C5_MissingDefaultFails ==
    /\ pc = "failed" => df = None
    /\ pc # "start" =>
          IF Uncovered /\ NoDefault
          THEN pc = "failed" /\ ret.result.raised = "ValueError" /\ central_fraction = None
          ELSE /\ pc # "failed"
               /\ \A i \in DOMAIN pop_layout : Ceiling(central_fraction, i) = CeilingOf(i)

\* {"DE": 0.5} over a layout of DE and FR nodes: the run failed.
C5_Witness ==
    /\ pc = "failed"
    /\ DOMAIN potential.dict = {DE}
    /\ {pop_layout[i].ct : i \in DOMAIN pop_layout} = {DE, FR}
    /\ df = None

\* C6 as stated: with progress in [0, 1] the final share of a node never
\* exceeds its final urban fraction times its ceiling.
C6_BelowCeiling ==
    pc = "done" /\ InUnit(progress) =>
        \A i \in DOMAIN df :
            RLeq(df[i].district_fraction_of_node,
                 RMul(df[i].urban_fraction, CeilingOf(i)))

\* C6 as amended: with progress in [0, 1] the final share of a node never
\* exceeds the larger of its final urban fraction times its ceiling and its
\* initial allocated share (historical share * urban_ct_fraction / fraction).
C6_BelowCeilingOrInitial ==
    pc = "done" /\ InUnit(progress) =>
        \A i \in DOMAIN df :
            RLeq(df[i].district_fraction_of_node,
                 RMax(RMul(df[i].urban_fraction, CeilingOf(i)), InitialShare(i)))

\* Full progress: one node moved up to its ceiling bound, another already
\* stood above its bound and stayed where it was.
C6_Witness ==
    /\ pc = "done"
    /\ progress = ROne
    /\ \E i, j \in DOMAIN df :
          /\ RLess(InitialShare(i), df[i].district_fraction_of_node)
          /\ df[i].district_fraction_of_node = RMul(df[i].urban_fraction, CeilingOf(i))
          /\ RLess(RMul(df[j].urban_fraction, CeilingOf(j)), InitialShare(j))
          /\ df[j].district_fraction_of_node = InitialShare(j)

\* C8: with every other input fixed, a larger progress never gives any node
\* a smaller final share.
C8_MonotoneInProgress ==
    pc = "done" =>
        \A q \in ProgressSet :
            LET other == project(district_heat_share, pop_layout,
                                 UrbanFraction(pop_layout), central_fraction, q)
            IN  \A i \in DOMAIN df :
                   /\ RLeq(progress, q) =>
                         RLeq(df[i].district_fraction_of_node,
                              other[i].district_fraction_of_node)
                   /\ RLeq(q, progress) =>
                         RLeq(other[i].district_fraction_of_node,
                              df[i].district_fraction_of_node)

\* A run at progress 1/2 that full progress would have taken strictly higher.
C8_Witness ==
    /\ pc = "done"
    /\ progress = <<1, 2>>
    /\ \E i \in DOMAIN df :
          /\ RLess(InitialShare(i), df[i].district_fraction_of_node)
          /\ RLess(df[i].district_fraction_of_node,
                   project(district_heat_share, pop_layout, UrbanFraction(pop_layout),
                           central_fraction, ROne)[i].district_fraction_of_node)

\* C10: the output 'urban fraction' of a node is the larger of its raw urban
\* fraction and its initial allocated share, and with ceiling and progress
\* both in [0, 1] the final share does not exceed it.
C10_UrbanFractionRaised ==
    pc = "done" =>
        \A i \in DOMAIN df :
            /\ df[i].urban_fraction = RMax(RawUrbanFraction(i), InitialShare(i))
            /\ urban_fraction[i] = df[i].urban_fraction
            /\ InUnit(CeilingOf(i)) /\ InUnit(progress) =>
                  RLeq(df[i].district_fraction_of_node, df[i].urban_fraction)

\* A node whose allocated share exceeded its raw urban fraction.
C10_Witness ==
    /\ pc = "done"
    /\ InUnit(progress)
    /\ \E i \in DOMAIN df :
          /\ RLess(RawUrbanFraction(i), InitialShare(i))
          /\ df[i].urban_fraction = InitialShare(i)
          /\ InUnit(CeilingOf(i))
          /\ df[i].district_fraction_of_node = df[i].urban_fraction

====
